---- MODULE Spec2Model ----
(***************************************************************************)
(* A model of lldp_topo.py (gerardo-garcia/lldp-topo): the capability      *)
(* decoder, the neighbor parser, the interface classifier and the          *)
(* get-topology / list-interfaces subcommands.                             *)
(*                                                                         *)
(* Representation of Python values.                                        *)
(*   - a str is a TLA+ string (TLC evaluates Len and \o on strings);       *)
(*   - None is the string None below, which no input document contains;    *)
(*   - a dict is a function whose domain is its set of keys; {} is <<>>;   *)
(*   - where the code tests isinstance(x, dict) the value carries its      *)
(*     shape: JDict(d), JList(seq) or JStr(s);                             *)
(*   - a Python bool is an int (True == 1, False == 0), as in Python.      *)
(***************************************************************************)
EXTENDS Integers, Sequences, FiniteSets, TLC

\* ---------------------------------------------------------------- bounds
\* longest capability list of a chassis node
MaxCaps == 4
\* longest lldp.interface list of a neighbor document
MaxNeigh == 2

\* longest `ip -j link list` answer
MaxLinks == 3
\* longest lldp.interface list of an interfaces document
MaxIfEntries == 2

VARIABLES
    fn,         \* the function a unit harness calls ("main" in the program runs)
    arg,        \* its argument
    ret,        \* its outcome: Pending, Returned(v) or SystemExit(code)
    main_args,  \* the parsed command line
    pc,         \* the statement the program is at
    stack,      \* the labels the pending calls return to, innermost first
    sub,        \* locals of get_topo_subcmd / list_interfaces_subcmd
    rows,       \* rows of the subcommand
    gi,         \* locals of get_ifaces_info
    ex,         \* locals of get_extra_ifaces_info
    rcl,        \* locals of run_command_list
    host,       \* what the commands observed of the current server's host
    log,        \* the commands run in the current session, each with its stdout
                \* and whether its execution on the server failed
    proc        \* the process: running, or how it ended and what it printed

pureVars == <<fn, arg, ret>>
progVars == <<main_args, pc, stack, sub, rows, gi, ex, rcl, host, log, proc>>
vars == <<fn, arg, ret, main_args, pc, stack, sub, rows, gi, ex, rcl, host, log, proc>>

\* ------------------------------------------------------- Python values
None == "<None>"
EmptyDict == <<>>

JDict(d) == [shape |-> "dict", val |-> d]
JList(s) == [shape |-> "list", val |-> s]
JStr(s) == [shape |-> "str", val |-> s]

\* isinstance(x, dict)
IsDict(x) == x.shape = "dict"

\* d.get(k, dflt)
Get(d, k, dflt) == IF k \in DOMAIN d THEN d[k] ELSE dflt

\* truth value of a str-or-None
TruthyStr(s) == s # None /\ s # ""

\* truth value of an int (or bool)
TruthyInt(n) == n # 0

Digit(n) ==
    CASE n = 0 -> "0" [] n = 1 -> "1" [] n = 2 -> "2" [] n = 3 -> "3"
      [] n = 4 -> "4" [] n = 5 -> "5" [] n = 6 -> "6" [] n = 7 -> "7"
      [] n = 8 -> "8" [] n = 9 -> "9"

RECURSIVE PyStrInt(_)
\* str(int(x)) for a non-negative int or bool x
PyStrInt(n) == IF n < 10 THEN Digit(n) ELSE PyStrInt(n \div 10) \o Digit(n % 10)

Pending == [status |-> "pending"]
Returned(v) == [status |-> "returned", value |-> v]
SystemExit(code) == [status |-> "SystemExit", code |-> code]

\* ------------------------------------------- get_brws_capabilities

\* one iteration of the loop `for c in caps`, on the four flags f
CapStepSkipEnabledTest(f, c) ==
    IF ~IsDict(c) THEN f
    ELSE LET d == c.val
             t == Get(d, "type", None)
             v == PyStrInt(Get(d, "enabled", 0))
         IN  IF t = "Bridge" THEN [f EXCEPT !.bridge = v]
             ELSE IF t = "Router" THEN [f EXCEPT !.router = v]
             ELSE IF t = "Wlan" THEN [f EXCEPT !.wlan = v]
             ELSE IF t = "Station" THEN [f EXCEPT !.station = v]
             ELSE f

CapStep(f, c) ==
    IF ~IsDict(c) THEN f
    ELSE LET d == c.val
             t == Get(d, "type", None)
         IN  IF t = "Bridge"
             THEN IF "enabled" \in DOMAIN d
                  THEN [f EXCEPT !.bridge = PyStrInt(d["enabled"])] ELSE f
             ELSE IF t = "Router"
             THEN IF "enabled" \in DOMAIN d
                  THEN [f EXCEPT !.router = PyStrInt(d["enabled"])] ELSE f
             ELSE IF t = "Wlan"
             THEN IF "enabled" \in DOMAIN d
                  THEN [f EXCEPT !.wlan = PyStrInt(d["enabled"])] ELSE f
             ELSE IF t = "Station"
             THEN IF "enabled" \in DOMAIN d
                  THEN [f EXCEPT !.station = PyStrInt(d["enabled"])] ELSE f
             ELSE f

RECURSIVE CapLoop(_, _, _)
\* the loop `for c in caps` from the i-th element on
CapLoop(caps, i, f) ==
    IF i > Len(caps) THEN f ELSE CapLoop(caps, i + 1, CapStep(f, caps[i]))

\* caps = chassis.get("capability", []); a lone dict becomes [caps]
CapList(chassis) ==
    LET caps == Get(chassis, "capability", JList(<<>>))
    IN  IF IsDict(caps) THEN <<caps>> ELSE caps.val

get_brws_capabilities_swapped(chassis) ==
    LET f == CapLoop(CapList(chassis), 1,
                     [bridge |-> "X", router |-> "X", wlan |-> "X", station |-> "X"])
    IN  f.router \o f.bridge \o f.wlan \o f.station

get_brws_capabilities(chassis) ==
    LET f == CapLoop(CapList(chassis), 1,
                     [bridge |-> "X", router |-> "X", wlan |-> "X", station |-> "X"])
    IN  f.bridge \o f.router \o f.wlan \o f.station

\* ------------------------------------------------------ parse_neighbors

\* chassis_id.get("type", "") == "mac" and chassis_id.get("value")
IsMacIdAnyType(chassis_id) == TruthyStr(Get(chassis_id, "value", None))

IsMacId(chassis_id) ==
    Get(chassis_id, "type", "") = "mac" /\ TruthyStr(Get(chassis_id, "value", None))

\* the body of `for iface_name, iface_info in neigh.items()` for one item:
\* SystemExit(1), or Returned(record stored in neighbor_dict[iface_name])
NeighItemNestedCaps(iface_info) ==
    LET chassis == Get(iface_info, "chassis", EmptyDict)
        chassis_keys == DOMAIN chassis
        port == Get(Get(Get(iface_info, "port", EmptyDict), "id", EmptyDict), "value", "")
    IN  IF Cardinality(chassis_keys) # 1 THEN SystemExit(1)
        ELSE LET chassis_name == CHOOSE k \in chassis_keys : TRUE
             IN  IF chassis_name = "id"
                 THEN LET chassis_id == Get(chassis, "id", EmptyDict)
                      IN  Returned([chassis |-> IF IsMacId(chassis_id)
                                                THEN chassis_name ELSE "UNKNOWN",
                                    chassis_id |-> IF IsMacId(chassis_id)
                                                   THEN chassis_id["value"] ELSE "UNKNOWN",
                                    brws |-> get_brws_capabilities(chassis),
                                    port |-> port])
                 ELSE Returned([chassis |-> chassis_name,
                                chassis_id |-> Get(Get(chassis[chassis_name], "id", EmptyDict),
                                                   "value", "UNKNOWN"),
                                brws |-> get_brws_capabilities(chassis),
                                port |-> port])

NeighItem(iface_info) ==
    LET chassis == Get(iface_info, "chassis", EmptyDict)
        chassis_keys == DOMAIN chassis
        port == Get(Get(Get(iface_info, "port", EmptyDict), "id", EmptyDict), "value", "")
    IN  IF Cardinality(chassis_keys) # 1 THEN SystemExit(1)
        ELSE LET chassis_name == CHOOSE k \in chassis_keys : TRUE
             IN  IF chassis_name = "id"
                 THEN LET chassis_id == Get(chassis, "id", EmptyDict)
                      IN  Returned([chassis |-> IF IsMacId(chassis_id)
                                                THEN chassis_name ELSE "UNKNOWN",
                                    chassis_id |-> IF IsMacId(chassis_id)
                                                   THEN chassis_id["value"] ELSE "UNKNOWN",
                                    brws |-> get_brws_capabilities(chassis),
                                    port |-> port])
                 ELSE Returned([chassis |-> chassis_name,
                                chassis_id |-> Get(Get(chassis[chassis_name], "id", EmptyDict),
                                                   "value", "UNKNOWN"),
                                brws |-> get_brws_capabilities(chassis[chassis_name]),
                                port |-> port])

\* neighbor_dict[k] = v
Put(d, k, v) == [x \in DOMAIN d \cup {k} |-> IF x = k THEN v ELSE d[x]]

RECURSIVE NeighItemsSkipBad(_, _, _)
NeighItemsSkipBad(neigh, todo, neighbor_dict) ==
    IF todo = {} THEN Returned(neighbor_dict)
    ELSE LET iface_name == CHOOSE k \in todo : TRUE
             r == NeighItem(neigh[iface_name])
         IN  IF r.status = "SystemExit"
             THEN NeighItemsSkipBad(neigh, todo \ {iface_name}, neighbor_dict)
             ELSE NeighItemsSkipBad(neigh, todo \ {iface_name},
                                    Put(neighbor_dict, iface_name, r.value))

RECURSIVE NeighItemsFirstWins(_, _, _)
NeighItemsFirstWins(neigh, todo, neighbor_dict) ==
    IF todo = {} THEN Returned(neighbor_dict)
    ELSE LET iface_name == CHOOSE k \in todo : TRUE
             r == NeighItem(neigh[iface_name])
         IN  IF r.status = "SystemExit" THEN r
             ELSE NeighItemsFirstWins(neigh, todo \ {iface_name},
                     IF iface_name \in DOMAIN neighbor_dict THEN neighbor_dict
                     ELSE Put(neighbor_dict, iface_name, r.value))

RECURSIVE NeighItems(_, _, _)
\* the loop `for iface_name, iface_info in neigh.items()` over the keys todo
\* of one entry.  The keys of one dict are distinct, so neither the map nor
\* the exit depends on the order in which the items are visited.
NeighItems(neigh, todo, neighbor_dict) ==
    IF todo = {} THEN Returned(neighbor_dict)
    ELSE LET iface_name == CHOOSE k \in todo : TRUE
             r == NeighItem(neigh[iface_name])
         IN  IF r.status = "SystemExit" THEN r
             ELSE NeighItems(neigh, todo \ {iface_name},
                             Put(neighbor_dict, iface_name, r.value))

RECURSIVE NeighLoop(_, _, _)
\* the loop `for neigh in neighbor_list` from the i-th entry on
NeighLoop(neighbor_list, i, neighbor_dict) ==
    IF i > Len(neighbor_list) THEN Returned(neighbor_dict)
    ELSE LET r == NeighItems(neighbor_list[i], DOMAIN neighbor_list[i], neighbor_dict)
         IN  IF r.status = "SystemExit" THEN r
             ELSE NeighLoop(neighbor_list, i + 1, r.value)

\* neighbor_list = neighbors.get("lldp", {}).get("interface", []); a bare
\* dict becomes [neighbor_list]
NeighborListDropBare(neighbors) ==
    LET neighbor_list == Get(Get(neighbors, "lldp", EmptyDict), "interface", JList(<<>>))
    IN  IF IsDict(neighbor_list) THEN <<>> ELSE neighbor_list.val

NeighborList(neighbors) ==
    LET neighbor_list == Get(Get(neighbors, "lldp", EmptyDict), "interface", JList(<<>>))
    IN  IF IsDict(neighbor_list) THEN <<neighbor_list.val>> ELSE neighbor_list.val

parse_neighbors(neighbors) == NeighLoop(NeighborList(neighbors), 1, EmptyDict)

\* local interface names of the LLDP documents
Ifaces == {"eth0", "eth1"}

\* --------------------------------------------------- remote commands

\* the commands of get_lldp_info, in the order of its list
LldpCommands ==
    <<"lldpcli -f json show chassis details",
      "lldpcli -f json show interfaces details",
      "lldpcli -f json show neighbors details">>

\* the command of get_interface_list
LinkCommand == "ip -j link list"

\* the role probe get_ifaces_info builds for one interface
ProbeCommand(interface) ==
    "iface_type=\"pf\"; [ -d \"/sys/class/net/" \o interface \o "/device/physfn\" ] "
    \o "&& iface_type=\"vf\"; [ ! -d \"/sys/class/net/" \o interface \o "/device\" ] "
    \o "&& iface_type=\"vlan\"; echo $iface_type"

get_iface_cmd_list(interface) ==
    <<"cat /sys/class/net/" \o interface \o "/device/device",
      "cat /sys/class/net/" \o interface \o "/device/vendor",
      "cat /sys/class/net/" \o interface \o "/device/numa_node",
      "cat /sys/class/net/" \o interface \o "/speed || echo UNKNOWN SPEED",
      "cat /sys/class/net/" \o interface \o "/operstate || echo UNKNOWN OPERSTATE",
      "cat /sys/class/net/" \o interface \o "/device/sriov_numvfs || echo UNKNOWN NUMVFS">>

\* ------------------------------------------------ map_vendor_device_id

vendor_device_mapping ==
    "0x8086" :> [vendor_name |-> "Intel",
                 devices |-> "0x10fb" :> "Niantic IXGBE 82599 SFP"
                          @@ "0x1016" :> "e1000 82540EP_LOM"
                          @@ "0x1521" :> "e1000 I350 Copper"
                          @@ "0x1528" :> "Twinville IXGBE X540T"
                          @@ "0x154d" :> "Niantic IXGBE 82599 SFP_SF2"
                          @@ "0x1572" :> "Fortville XL710 SFP"
                          @@ "0x1583" :> "Fortville XL710 QSFP_A"
                          @@ "0x1584" :> "Fortville XL710 QSFP_B"
                          @@ "0x1585" :> "Fortville XL710 QSFP_C"
                          @@ "0x158b" :> "Fortville XXV710 for 25GbE SFP28"
                          @@ "0x37d2" :> "X722 for 10GBASE-T"]
    @@ "0x15b3" :> [vendor_name |-> "Mellanox",
                    devices |-> "0x1015" :> "MT27710 Family [ConnectX-4 Lx]"
                             @@ "0x1016" :> "MT27710 Family [ConnectX-4 Lx Virtual Function]"
                             @@ "0x1019" :> "MT28800 Family [ConnectX-5 Ex]"]
    @@ "0x14e4" :> [vendor_name |-> "Broadcom",
                    devices |-> "0x1657" :> "BCM5719"
                             @@ "0x165f" :> "BCM5120"
                             @@ "0x16d6" :> "BCM-57412 NextXtreme-E"
                             @@ "0x16d7" :> "BCM-57414 NextXtreme-E"]

\* returns <<vendor_name, device_name>>
map_vendor_device_id_any_vendor(vendor_id, device_id) ==
    LET entry == Get(vendor_device_mapping, vendor_id, EmptyDict)
        devices == IF vendor_id \in DOMAIN vendor_device_mapping THEN entry["devices"]
                   ELSE vendor_device_mapping["0x8086"]["devices"]
    IN  <<Get(entry, "vendor_name", "UNKNOWN VENDOR"),
          Get(devices, device_id, "UNKNOWN DEVICE")>>

map_vendor_device_id(vendor_id, device_id) ==
    LET entry == Get(vendor_device_mapping, vendor_id, EmptyDict)
    IN  <<Get(entry, "vendor_name", "UNKNOWN VENDOR"),
          Get(Get(entry, "devices", EmptyDict), device_id, "UNKNOWN DEVICE")>>

\* ------------------------------------------------------ the remote host

\* A decoded stdout is [text, trail]: what the command printed and the white
\* space that ends it.  The text of an lldpcli or ip command is represented by
\* the document its JSON denotes.
Stdout(text) == [text |-> text, trail |-> "\n"]

\* s.strip() where the result is handled further as a stdout
StripRaw(out) == [out EXCEPT !.trail = ""]

\* s.strip() where the result is used as a plain value
StripText(out) == out.text

\* yaml.safe_load(s)
SafeLoad(out) == out.text

\* interface names of a host
LinkNames == Ifaces \cup {"eth2"}

\* what the host's sysfs holds for an interface that has a device directory;
\* None is a file that cannot be read
Sysfs ==
    [eth0 |-> [device |-> "0x10fb", vendor |-> "0x8086", numa_node |-> "0",
               speed |-> "10000", operstate |-> "up", sriov_numvfs |-> "8"],
     eth1 |-> [device |-> "0x1016", vendor |-> "0x15b3", numa_node |-> "1",
               speed |-> None, operstate |-> "down", sriov_numvfs |-> None],
     eth2 |-> [device |-> "0x9999", vendor |-> "0x9999", numa_node |-> "-1",
               speed |-> "1000", operstate |-> "unknown", sriov_numvfs |-> "4"]]

\* the two facts the role probe tests: does .../device/physfn exist, does
\* .../device exist.  physfn lies inside device, so it exists only with it.
FsFacts == {f \in [physfn : BOOLEAN, device : BOOLEAN] : f.physfn => f.device}

\* what `[ -d .../device/physfn ] && iface_type="vf"; [ ! -d .../device ] &&
\* iface_type="vlan"; echo $iface_type` prints in a shell whose variable
\* iface_type holds iface_type, on a machine with these facts
ProbeTests(iface_type, facts) ==
    LET t1 == IF facts.physfn THEN "vf" ELSE iface_type
        t2 == IF ~facts.device THEN "vlan" ELSE t1
    IN  t2

\* what a shell prints for the whole role probe: `iface_type="pf"; ` and the
\* tests
ProbeScript(facts) == ProbeTests("pf", facts)

\* ------------------------------------------------ unit harness: inputs

\* all sequences over S of length at most n
SeqsUpTo(S, n) == UNION {[1..k -> S] : k \in 0..n}

CapTypes == {"Bridge", "Router", "Wlan", "Station"}

\* capability entries: a known type with enabled absent, false/0 or true/1;
\* an unknown type; no type; and an element that is not an object
CapDicts ==
    {[type |-> t] : t \in CapTypes}
    \cup {[type |-> t, enabled |-> e] : t \in CapTypes, e \in 0..1}
    \cup {[type |-> "Other", enabled |-> 1], [enabled |-> 1]}

CapEntries == {JDict(d) : d \in CapDicts} \cup {JStr("Bridge")}

\* chassis nodes: no capability field, one object, or a sequence
CapInputs ==
    {EmptyDict}
    \cup {[capability |-> JDict(d)] : d \in CapDicts}
    \cup {[capability |-> JList(s)] : s \in SeqsUpTo(CapEntries, MaxCaps)}



Mac1 == "0c:29:ef:c9:46:a0"
Mac2 == "8c:04:ba:c1:b2:40"
Port1 == "Gi1/0/1"

\* the id object of a chassis
IdNodes ==
    {[type |-> "mac", value |-> Mac1], [type |-> "mac", value |-> ""], [type |-> "mac"],
     [type |-> "local", value |-> "sw2"], [value |-> Mac1], EmptyDict}

\* the object nested under a chassis name: id present, without value or
\* absent; capability absent, one object or a list
NamedNodes ==
    {i @@ c : i \in {EmptyDict, [id |-> [type |-> "mac", value |-> Mac1]],
                     [id |-> [type |-> "mac"]]},
              c \in {EmptyDict, [capability |-> JDict([type |-> "Bridge", enabled |-> 1])],
                     [capability |-> JList(<<JDict([type |-> "Bridge", enabled |-> 1]),
                                             JDict([type |-> "Router", enabled |-> 0])>>)]}}

TestChassis ==
    "SW-DAT2" :> [id |-> [type |-> "mac", value |-> Mac1],
                  capability |-> JList(<<JDict([type |-> "Bridge", enabled |-> 1]),
                                         JDict([type |-> "Router", enabled |-> 0])>>)]

\* chassis objects: named, ID-only, and with zero or two keys
ChassisObjects ==
    {"SW-DAT2" :> n : n \in NamedNodes}
    \cup {"SW-DAT3" :> [id |-> [type |-> "mac", value |-> Mac2]]}
    \cup {[id |-> i] : i \in IdNodes}
    \cup {EmptyDict,
          ("A" :> EmptyDict) @@ ("B" :> EmptyDict),
          [id |-> [type |-> "mac", value |-> Mac1],
           capability |-> JList(<<JDict([type |-> "Bridge", enabled |-> 1])>>)]}

\* the value of one interface in the neighbor document
NeighInfos ==
    {[chassis |-> c, port |-> [id |-> [value |-> Port1]]] : c \in ChassisObjects}
    \cup {[port |-> [id |-> [value |-> Port1]]],
          [chassis |-> TestChassis],
          [chassis |-> TestChassis, port |-> [id |-> EmptyDict]]}

\* the entries of lldp.interface: one key, no key, or two keys
NeighEntries ==
    {n :> i : n \in Ifaces, i \in NeighInfos}
    \cup {EmptyDict}
    \cup {("eth0" :> a) @@ ("eth1" :> b) :
            a \in {[chassis |-> TestChassis], [chassis |-> EmptyDict]},
            b \in {[chassis |-> [id |-> [type |-> "mac", value |-> Mac2]]],
                   [chassis |-> ("A" :> EmptyDict) @@ ("B" :> EmptyDict)]}}

\* neighbor documents: no lldp, no interface, a bare object, or a list
NeighInputs ==
    {EmptyDict, [lldp |-> EmptyDict]}
    \cup {[lldp |-> [interface |-> JDict(e)]] : e \in NeighEntries}
    \cup {[lldp |-> [interface |-> JList(s)]] : s \in SeqsUpTo(NeighEntries, MaxNeigh)}


\* ----------------------------------------------- documents of a host

LocalMac == "52:54:00:aa:bb:01"
IfMac == [eth0 |-> "52:54:00:aa:bb:10", eth1 |-> "52:54:00:aa:bb:11"]

\* answers to `lldpcli -f json show chassis details`: one chassis, none, two
ChassisDocs ==
    {"local-chassis" :> [chassis |-> "srv1" :>
        [id |-> [type |-> "mac", value |-> LocalMac],
         capability |-> JList(<<JDict([type |-> "Bridge", enabled |-> 0]),
                                 JDict([type |-> "Router", enabled |-> 0]),
                                 JDict([type |-> "Wlan", enabled |-> 0]),
                                 JDict([type |-> "Station", enabled |-> 1])>>)]],
     EmptyDict,
     "local-chassis" :> [chassis |-> ("srv1" :> EmptyDict) @@ ("srv2" :> EmptyDict)]}

\* entries of lldp.interface of the interfaces document: eth0 with a port id,
\* eth1 without one, an entry with two keys and one with none
IfEntries ==
    {"eth0" :> [port |-> [id |-> [type |-> "mac", value |-> IfMac["eth0"]]]],
     "eth1" :> EmptyDict,
     ("eth0" :> EmptyDict) @@ ("eth1" :> EmptyDict),
     EmptyDict}

\* answers to `lldpcli -f json show interfaces details`
InterfaceDocs ==
    {EmptyDict,
     [lldp |-> [interface |-> JDict("eth0" :>
                    [port |-> [id |-> [type |-> "mac", value |-> IfMac["eth0"]]]])]]}
    \cup {[lldp |-> [interface |-> JList(l)]] : l \in SeqsUpTo(IfEntries, MaxIfEntries)}

\* answers to `lldpcli -f json show neighbors details`
NeighborDocs ==
    {EmptyDict,
     [lldp |-> [interface |-> JList(<<"eth0" :>
         [chassis |-> TestChassis, port |-> [id |-> [value |-> Port1]]]>>)]],
     [lldp |-> [interface |-> JList(<<
         "eth0" :> [chassis |-> [id |-> [type |-> "mac", value |-> Mac2]],
                    port |-> [id |-> [value |-> Port1]]],
         "eth1" :> [chassis |-> "SW-DAT3" :> [id |-> [type |-> "mac", value |-> Mac2]]]>>)]],
     [lldp |-> [interface |-> JDict("eth1" :> [chassis |-> [id |-> EmptyDict]])]],
     [lldp |-> [interface |-> JList(<<"eth0" :>
         [chassis |-> ("A" :> EmptyDict) @@ ("B" :> EmptyDict)]>>)]]}

\* answers to `ip -j link list`: distinct interface names
LinkDocs ==
    {[i \in DOMAIN l |-> [ifname |-> l[i]]] :
        l \in {m \in SeqsUpTo(LinkNames, MaxLinks) :
                  \A i, j \in DOMAIN m : i # j => m[i] # m[j]}}

\* ---------------------------------------------------- the remote shell

\* the sysfs file each enrichment command reads, with its fallback text
SysfsCommands ==
    UNION {{[text |-> "cat /sys/class/net/" \o x \o "/device/device",
             iface |-> x, file |-> "device", fallback |-> None],
            [text |-> "cat /sys/class/net/" \o x \o "/device/vendor",
             iface |-> x, file |-> "vendor", fallback |-> None],
            [text |-> "cat /sys/class/net/" \o x \o "/device/numa_node",
             iface |-> x, file |-> "numa_node", fallback |-> None],
            [text |-> "cat /sys/class/net/" \o x \o "/speed || echo UNKNOWN SPEED",
             iface |-> x, file |-> "speed", fallback |-> "UNKNOWN SPEED"],
            [text |-> "cat /sys/class/net/" \o x \o "/operstate || echo UNKNOWN OPERSTATE",
             iface |-> x, file |-> "operstate", fallback |-> "UNKNOWN OPERSTATE"],
            [text |-> "cat /sys/class/net/" \o x \o "/device/sriov_numvfs || echo UNKNOWN NUMVFS",
             iface |-> x, file |-> "sriov_numvfs", fallback |-> "UNKNOWN NUMVFS"]}
           : x \in LinkNames}

ProbeCommands == {[text |-> ProbeCommand(x), iface |-> x] : x \in LinkNames}

\* the documents a host may answer a document command with
DocsOf(command) ==
    IF command = LldpCommands[1] THEN ChassisDocs
    ELSE IF command = LldpCommands[2] THEN InterfaceDocs
    ELSE IF command = LldpCommands[3] THEN NeighborDocs
    ELSE LinkDocs

DocCommands == {LldpCommands[1], LldpCommands[2], LldpCommands[3], LinkCommand}

\* Nothing observed yet.  host.docs and host.fs record what the commands of
\* the current scan found on the server, host.localfs what they found on the
\* machine the program runs on: a document or a pair of file system facts is
\* chosen when a command first looks at it and is fixed from then on.
FreshHost == [docs |-> EmptyDict, fs |-> EmptyDict, localfs |-> EmptyDict]

\* client.exec_command(command): the server's shell runs the whole command.
\* The runs that exit with status 0: the stdout printed, the host as observed
\* afterwards, and whether the execution on the server failed (it did not)
Shell(command) ==
    IF command \in DocCommands
    THEN {[stdout |-> Stdout(d), host |-> [host EXCEPT !.docs = Put(@, command, d)],
           failed |-> FALSE] :
            d \in IF command \in DOMAIN host.docs THEN {host.docs[command]}
                  ELSE DocsOf(command)}
    ELSE IF \E c \in ProbeCommands : c.text = command
    THEN LET x == (CHOOSE c \in ProbeCommands : c.text = command).iface
         IN  {[stdout |-> Stdout(ProbeScript(f)), host |-> [host EXCEPT !.fs = Put(@, x, f)],
               failed |-> FALSE] :
                f \in IF x \in DOMAIN host.fs THEN {host.fs[x]} ELSE FsFacts}
    ELSE LET c == CHOOSE c \in SysfsCommands : c.text = command
             content == Sysfs[c.iface][c.file]
         IN  IF content # None
             THEN {[stdout |-> Stdout(content), host |-> host, failed |-> FALSE]}
             ELSE IF c.fallback # None
             THEN {[stdout |-> Stdout(c.fallback), host |-> host, failed |-> FALSE]}
             ELSE {}

\* subprocess.run(f"{ssh_command} {server} {command}", shell=True, check=True):
\* the local shell parses the line, so the server gets the command up to its
\* first `;` or `||` and the rest runs on the local machine.  Of the role
\* probe the server gets `iface_type="pf"`, which prints nothing; the tests
\* and the echo run in the local shell, where the variable is not set.  Of
\* `cat FILE || echo TEXT` the server gets the cat and the echo is local.
\* The local tail runs whether or not the part sent to the server failed
\* (no connection, non-zero remote exit), and its exit status is the line's.
LocalShell(command) ==
    IF \E c \in ProbeCommands : c.text = command
    THEN LET x == (CHOOSE c \in ProbeCommands : c.text = command).iface
         IN  {[stdout |-> Stdout(ProbeTests("", f)),
               host |-> [host EXCEPT !.localfs = Put(@, x, f)],
               failed |-> b] :
                f \in (IF x \in DOMAIN host.localfs THEN {host.localfs[x]} ELSE FsFacts),
                b \in BOOLEAN}
    ELSE IF \E c \in SysfsCommands : c.text = command /\ c.fallback # None
    THEN LET c == CHOOSE c \in SysfsCommands : c.text = command
         IN  Shell(command)
             \cup {[stdout |-> Stdout(c.fallback), host |-> host, failed |-> TRUE]}
    ELSE Shell(command)

\* the exit status that counts is that of the last command of the line: with
\* the alternative command, the local echo that ends the role probe and the
\* commands with a fallback text
EndsWithLocalEcho(command) ==
    \/ \E c \in ProbeCommands : c.text = command
    \/ \E c \in SysfsCommands : c.text = command /\ c.fallback # None

\* ---------------------------------------------------------- the process

NoFrame == <<>>

Running == [status |-> "running", code |-> 0, message |-> <<>>, printed |-> FALSE,
            table |-> <<>>]

\* sys.exit(code); message is what the handler reported before: the server
\* and the command it names (<<>> when it names none)
ExitedPrintingRows(code, message) ==
    [status |-> "SystemExit", code |-> code, message |-> message, printed |-> TRUE,
     table |-> rows]

Exited(code, message) ==
    [status |-> "SystemExit", code |-> code, message |-> message, printed |-> FALSE,
     table |-> <<>>]

\* an exception that no handler catches: a traceback and exit code 1
Uncaught(exc) ==
    [status |-> exc, code |-> 1, message |-> <<>>, printed |-> FALSE, table |-> <<>>]

\* print_table(headers, rows, ...) and the end of the program
Printed(table) ==
    [status |-> "done", code |-> 0, message |-> <<>>, printed |-> TRUE, table |-> table]

\* the servers of the command line: one server, or two
ServerLists == {<<"root@s1">>, <<"root@s1", "root@s2">>}

\* the current server of the subcommand's loop
server == main_args.servers_list[sub.server_i]

\* -------------------------------------------------- run_command_list

\* the call run_command_list(srv, command_list, ssh_command), returning to label
RclCall(srv, command_list, label) ==
    /\ rcl' = [server |-> srv, command_list |-> command_list, answer_list |-> <<>>]
    /\ log' = <<>>
    /\ stack' = <<label>> \o stack
    /\ pc' = IF main_args.alt_command = None THEN "rcl_connect" ELSE "rcl_loop"

\* the `except RuntimeError` clause around the call that returns to label
LldpHandler == Exited(1, <<rcl.server, LldpCommands[Len(LldpCommands)]>>)
GiHandler == Exited(1, <<gi.server, gi.command>>)
LinkHandler == Exited(1, <<rcl.server, "One command of ['" \o LinkCommand \o "']">>)

Handler(label) ==
    IF label = "lldp_ret" THEN LldpHandler
    ELSE IF label = "links_ret" THEN LinkHandler
    ELSE GiHandler

\* client.connect(...) of the paramiko branch succeeds
RclConnect ==
    /\ pc = "rcl_connect"
    /\ pc' = "rcl_loop"
    /\ UNCHANGED <<main_args, stack, sub, rows, gi, ex, rcl, host, log, proc>>

\* client.connect(...) raises (no route, authentication): not a RuntimeError
RclConnectFail ==
    /\ pc = "rcl_connect"
    /\ proc' = Uncaught("SSHException")
    /\ pc' = "exit"
    /\ UNCHANGED <<main_args, stack, sub, rows, gi, ex, rcl, host, log>>

\* what the loop appends for a stdout: decode().strip() with paramiko,
\* decode() with the alternative command
AnswerOf(out) == IF main_args.alt_command = None THEN StripRaw(out) ELSE out

AppendAnswerFront(answer_list, answer) == <<answer>> \o answer_list

AppendAnswer(answer_list, answer) == Append(answer_list, answer)

\* one iteration of `for command in command_list`: the command exits with 0
RclExec ==
    /\ pc = "rcl_loop"
    /\ Len(rcl.answer_list) < Len(rcl.command_list)
    /\ LET command == rcl.command_list[Len(rcl.answer_list) + 1]
       IN  \E r \in IF main_args.alt_command = None THEN Shell(command)
                     ELSE LocalShell(command) :
             /\ rcl' = [rcl EXCEPT !.answer_list = AppendAnswer(@, AnswerOf(r.stdout))]
             /\ host' = r.host
             /\ log' = Append(log, [command |-> command, stdout |-> r.stdout,
                                    failed |-> r.failed])
    /\ UNCHANGED <<main_args, pc, stack, sub, rows, gi, ex, proc>>

\* one iteration of `for command in command_list`: a non-zero exit status.
\* The paramiko branch raises RuntimeError, which the caller's handler turns
\* into a report and sys.exit(1); subprocess.run(check=True) raises
\* CalledProcessError, which no handler catches.
RclExecFail ==
    /\ pc = "rcl_loop"
    /\ Len(rcl.answer_list) < Len(rcl.command_list)
    /\ main_args.alt_command # None =>
          ~EndsWithLocalEcho(rcl.command_list[Len(rcl.answer_list) + 1])
    /\ log' = Append(log, [command |-> rcl.command_list[Len(rcl.answer_list) + 1],
                           stdout |-> Stdout(None), failed |-> TRUE])
    /\ proc' = IF main_args.alt_command = None THEN Handler(Head(stack))
               ELSE Uncaught("CalledProcessError")
    /\ pc' = "exit"
    /\ UNCHANGED <<main_args, stack, sub, rows, gi, ex, rcl, host>>

\* the end of the loop: the length test (a warning only) and `return answer_list`
RclReturn ==
    /\ pc = "rcl_loop"
    /\ Len(rcl.answer_list) >= Len(rcl.command_list)
    /\ pc' = Head(stack)
    /\ stack' = Tail(stack)
    /\ UNCHANGED <<main_args, sub, rows, gi, ex, rcl, host, log, proc>>

\* ---------------------------------------------------- get_ifaces_info

\* the call get_ifaces_info(srv, interface_list, extra_pf_info, ssh_command)
GiCall(srv, interface_list, extra_pf_info, label) ==
    /\ gi' = [server |-> srv, interface_list |-> interface_list,
              extra_pf_info |-> extra_pf_info, command_list |-> <<>>, command |-> None,
              iface_dict |-> EmptyDict, physical_iface_list |-> <<>>]
    /\ stack' = <<label>> \o stack
    /\ pc' = "gi_start"

\* lines 317-329: one probe per interface, run as one batch
GiStart ==
    /\ pc = "gi_start"
    /\ LET command_list == [i \in DOMAIN gi.interface_list |->
                               ProbeCommand(gi.interface_list[i])]
       IN  /\ gi' = [gi EXCEPT !.command_list = command_list,
                               !.command = IF command_list = <<>> THEN None
                                           ELSE command_list[Len(command_list)]]
           /\ RclCall(gi.server, command_list, "gi_probed")
    /\ UNCHANGED <<main_args, sub, rows, ex, host, proc>>

RECURSIVE TypeLoop(_, _, _, _)
\* lines 336-343: `for iface_index, iface_name in enumerate(interface_list)`
\* from position i on; acc holds iface_dict and physical_iface_list
TypeLoop(interface_list, answer_list, i, acc) ==
    IF i > Len(interface_list) THEN acc
    ELSE LET iface_type == StripText(answer_list[i])
             iface_name == interface_list[i]
         IN  TypeLoop(interface_list, answer_list, i + 1,
                 [iface_dict |-> Put(acc.iface_dict, iface_name, [type |-> iface_type]),
                  physical_iface_list |->
                      IF iface_type = "pf" THEN Append(acc.physical_iface_list, iface_name)
                      ELSE acc.physical_iface_list])

RECURSIVE ExtraCommands(_, _)
\* lines 276-278: the six commands of each interface, from position i on
ExtraCommands(interface_list, i) ==
    IF i > Len(interface_list) THEN <<>>
    ELSE get_iface_cmd_list(interface_list[i]) \o ExtraCommands(interface_list, i + 1)

\* lines 330-347: the roles; then either the enrichment batch of
\* get_extra_ifaces_info (lines 276-279) or `return iface_dict`
GiProbed ==
    /\ pc = "gi_probed"
    /\ LET acc == TypeLoop(gi.interface_list, rcl.answer_list, 1,
                           [iface_dict |-> EmptyDict, physical_iface_list |-> <<>>])
       IN  /\ gi' = [gi EXCEPT !.iface_dict = acc.iface_dict,
                               !.physical_iface_list = acc.physical_iface_list]
           /\ IF gi.extra_pf_info
              THEN /\ ex' = [interface_list |-> acc.physical_iface_list,
                             command_list |-> ExtraCommands(acc.physical_iface_list, 1),
                             answers |-> <<>>]
                   /\ RclCall(gi.server, ExtraCommands(acc.physical_iface_list, 1), "ex_ret")
              ELSE /\ pc' = Head(stack)
                   /\ stack' = Tail(stack)
                   /\ rcl' = NoFrame
                   /\ UNCHANGED <<ex, log>>
    /\ UNCHANGED <<main_args, sub, rows, host, proc>>

\* lines 285-305: the body of `for interface in interface_list` for the
\* interface whose first answer is at position answer_index (0-based)
ExtraFieldsIdsFirst(answers, answer_index, iface_info) ==
    LET device_id == StripText(answers[answer_index + 1])
        vendor_id == StripText(answers[answer_index + 2])
        names == map_vendor_device_id(vendor_id, device_id)
        numa_id == StripText(answers[answer_index + 3])
        speed == StripText(answers[answer_index + 4])
        operstate == StripText(answers[answer_index + 5])
        numvfs == StripText(answers[answer_index + 6])
    IN  [type |-> iface_info.type, device_id |-> device_id, device_name |-> names[2],
         vendor_id |-> vendor_id, vendor_name |-> names[1], numa_id |-> numa_id,
         speed |-> speed, operstate |-> operstate, numvfs |-> numvfs,
         extra |-> vendor_id \o "," \o names[1] \o "," \o device_id \o "," \o names[2]
                   \o "," \o speed \o "," \o operstate \o "," \o numvfs]

ExtraFields(answers, answer_index, iface_info) ==
    LET device_id == StripText(answers[answer_index + 1])
        vendor_id == StripText(answers[answer_index + 2])
        names == map_vendor_device_id(vendor_id, device_id)
        numa_id == StripText(answers[answer_index + 3])
        speed == StripText(answers[answer_index + 4])
        operstate == StripText(answers[answer_index + 5])
        numvfs == StripText(answers[answer_index + 6])
    IN  [type |-> iface_info.type, device_id |-> device_id, device_name |-> names[2],
         vendor_id |-> vendor_id, vendor_name |-> names[1], numa_id |-> numa_id,
         speed |-> speed, operstate |-> operstate, numvfs |-> numvfs,
         extra |-> names[1] \o "," \o vendor_id \o "," \o names[2] \o "," \o device_id
                   \o "," \o speed \o "," \o operstate \o "," \o numvfs]

RECURSIVE ExtraLoopNoAdvance(_, _, _, _, _)
ExtraLoopNoAdvance(interface_list, answers, i, answer_index, iface_info_dict) ==
    IF i > Len(interface_list) THEN iface_info_dict
    ELSE LET interface == interface_list[i]
         IN  ExtraLoopNoAdvance(interface_list, answers, i + 1, answer_index,
                 Put(iface_info_dict, interface,
                     ExtraFields(answers, answer_index, iface_info_dict[interface])))

RECURSIVE ExtraLoop(_, _, _, _, _)
\* lines 283-305: `for interface in interface_list` from position i on
ExtraLoop(interface_list, answers, i, answer_index, iface_info_dict) ==
    IF i > Len(interface_list) THEN iface_info_dict
    ELSE LET interface == interface_list[i]
         IN  ExtraLoop(interface_list, answers, i + 1, answer_index + 6,
                 Put(iface_info_dict, interface,
                     ExtraFields(answers, answer_index, iface_info_dict[interface])))

\* lines 280-305 of get_extra_ifaces_info, then `return iface_dict` (line 347)
ExReturn ==
    /\ pc = "ex_ret"
    /\ ex' = [ex EXCEPT !.answers = rcl.answer_list]
    /\ gi' = [gi EXCEPT !.iface_dict =
                 ExtraLoop(ex.interface_list, rcl.answer_list, 1, 0, gi.iface_dict)]
    /\ pc' = Head(stack)
    /\ stack' = Tail(stack)
    /\ rcl' = NoFrame
    /\ UNCHANGED <<main_args, sub, rows, host, log, proc>>


\* ------------------------------------------------------ get_topo_subcmd

TopoLocals ==
    [server_i |-> 1, chassis |-> None, interfaces |-> None, neighbors |-> None,
     edge1 |-> None, chassis_id1 |-> None, brws1 |-> None, neighbors_dict |-> EmptyDict,
     interface_list |-> <<>>, iface_i |-> 1, iface1 |-> None, mac1 |-> None,
     neighbor_info |-> EmptyDict]

RECURSIVE KeySeq(_)
\* the keys of a dict in the order a for loop visits them
KeySeq(keys) ==
    IF keys = {} THEN <<>>
    ELSE LET k == CHOOSE k \in keys : TRUE IN <<JStr(k)>> \o KeySeq(keys \ {k})

\* what `for iface in interface_list` visits: the elements of a list, the
\* keys of a dict
ForElements(v) ==
    IF IsDict(v) THEN KeySeq(DOMAIN v.val) ELSE [i \in DOMAIN v.val |-> JDict(v.val[i])]

\* line 522: the next server, get_lldp_info's batch for it (lines 366-373);
\* after the last server, print_table (line 615)
TopoServer ==
    /\ pc = "topo_server"
    /\ IF sub.server_i > Len(main_args.servers_list)
       THEN /\ proc' = Printed(rows)
            /\ pc' = "done"
            /\ UNCHANGED <<stack, rcl, host, log>>
       ELSE /\ host' = FreshHost
            /\ RclCall(server, LldpCommands, "lldp_ret")
            /\ UNCHANGED proc
    /\ UNCHANGED <<main_args, sub, rows, gi, ex>>

\* lines 374-379 and 391 of get_lldp_info: the three documents
LldpReturn ==
    /\ pc = "lldp_ret"
    /\ sub' = [sub EXCEPT !.chassis = SafeLoad(rcl.answer_list[1]),
                          !.interfaces = SafeLoad(rcl.answer_list[2]),
                          !.neighbors = SafeLoad(rcl.answer_list[3])]
    /\ rcl' = NoFrame
    /\ pc' = "topo_chassis"
    /\ UNCHANGED <<main_args, stack, rows, gi, ex, host, log, proc>>

\* lines 533 and 558: `len(chassis_keys) != 1`, `len(iface_keys) != 1`
NotSingleOnlyEmpty(keys) == Cardinality(keys) = 0

NotSingle(keys) == Cardinality(keys) # 1

\* lines 532-555: the local chassis, the neighbor map, the interface list
TopoChassis ==
    /\ pc = "topo_chassis"
    /\ LET chassis_node == Get(Get(sub.chassis, "local-chassis", EmptyDict),
                               "chassis", EmptyDict)
           chassis_keys == DOMAIN chassis_node
           parsed == parse_neighbors(sub.neighbors)
       IN  IF NotSingle(chassis_keys)
           THEN /\ proc' = Exited(1, <<server>>)
                /\ pc' = "exit"
                /\ UNCHANGED sub
           ELSE IF parsed.status = "SystemExit"
           THEN /\ proc' = Exited(parsed.code, <<>>)
                /\ pc' = "exit"
                /\ UNCHANGED sub
           ELSE LET edge1 == CHOOSE k \in chassis_keys : TRUE
                IN  /\ sub' = [sub EXCEPT
                          !.chassis = None, !.interfaces = None, !.neighbors = None,
                          !.edge1 = edge1,
                          !.chassis_id1 = Get(Get(chassis_node[edge1], "id", EmptyDict),
                                              "value", "UNKNOWN"),
                          !.brws1 = get_brws_capabilities(chassis_node[edge1]),
                          !.neighbors_dict = parsed.value,
                          !.interface_list =
                              ForElements(Get(Get(sub.interfaces, "lldp", EmptyDict),
                                              "interface", JList(<<>>))),
                          !.iface_i = 1]
                    /\ pc' = "topo_iface"
                    /\ UNCHANGED proc
    /\ UNCHANGED <<main_args, stack, rows, gi, ex, rcl, host, log>>

\* line 581: `main_args.quick and not edge2`
QuickSkipNever(edge2) == FALSE

QuickSkip(edge2) == main_args.quick /\ ~TruthyStr(edge2)

\* line 589: the interface list handed to get_ifaces_info, `[iface1]`
ProbeListSoFar(iface1) ==
    [i \in 1..sub.iface_i |->
        IF i = sub.iface_i THEN iface1
        ELSE CHOOSE k \in DOMAIN sub.interface_list[i].val : TRUE]

ProbeList(iface1) == <<iface1>>

\* lines 556-590: one interface entry up to the call of get_ifaces_info; the
\* end of the loop returns to line 522
TopoIface ==
    /\ pc = "topo_iface"
    /\ IF sub.iface_i > Len(sub.interface_list)
       THEN \* the locals of this server's scan are dead from here on
            /\ sub' = [TopoLocals EXCEPT !.server_i = sub.server_i + 1]
            /\ pc' = "topo_server"
            /\ UNCHANGED <<stack, gi, proc>>
       ELSE LET iface == sub.interface_list[sub.iface_i]
            IN  IF ~IsDict(iface)
                THEN \* iface.keys() on a str
                     /\ proc' = Uncaught("AttributeError")
                     /\ pc' = "exit"
                     /\ UNCHANGED <<stack, sub, gi>>
                ELSE IF NotSingle(DOMAIN iface.val)
                THEN /\ proc' = Exited(1, <<>>)
                     /\ pc' = "exit"
                     /\ UNCHANGED <<stack, sub, gi>>
                ELSE LET iface1 == CHOOSE k \in DOMAIN iface.val : TRUE
                         mac1 == Get(Get(Get(iface.val[iface1], "port", EmptyDict),
                                         "id", EmptyDict), "value", "")
                         neighbor_info == Get(sub.neighbors_dict, iface1, EmptyDict)
                         edge2 == Get(neighbor_info, "chassis", None)
                     IN  IF QuickSkip(edge2)
                         THEN /\ sub' = [sub EXCEPT !.iface1 = iface1, !.mac1 = mac1,
                                                    !.neighbor_info = neighbor_info,
                                                    !.iface_i = @ + 1]
                              /\ UNCHANGED <<pc, stack, gi, proc>>
                         ELSE /\ sub' = [sub EXCEPT !.iface1 = iface1, !.mac1 = mac1,
                                                    !.neighbor_info = neighbor_info]
                              /\ GiCall(server, ProbeList(iface1), main_args.extra,
                                        "topo_classified")
                              /\ UNCHANGED proc
    /\ host' = IF sub.iface_i > Len(sub.interface_list) THEN FreshHost ELSE host
    /\ log' = IF sub.iface_i > Len(sub.interface_list) THEN <<>> ELSE log
    /\ UNCHANGED <<main_args, rows, ex, rcl>>

\* line 594: `iface1_type != "pf"`
NotReportedNever(iface1_type) == FALSE

NotReported(iface1_type) == iface1_type # "pf"

\* lines 599-611
NewRowRemoteFirst(iface1_info) ==
    <<Get(sub.neighbor_info, "chassis", None),
      Get(sub.neighbor_info, "chassis_id", None),
      Get(sub.neighbor_info, "brws", None),
      Get(sub.neighbor_info, "port", None),
      iface1_info["type"],
      IF main_args.extra THEN iface1_info["extra"] ELSE "N/A",
      sub.mac1,
      sub.edge1, sub.chassis_id1, sub.brws1, sub.iface1>>

NewRow(iface1_info) ==
    <<sub.edge1, sub.chassis_id1, sub.brws1, sub.iface1, iface1_info["type"],
      IF main_args.extra THEN iface1_info["extra"] ELSE "N/A",
      sub.mac1,
      Get(sub.neighbor_info, "chassis", None),
      Get(sub.neighbor_info, "chassis_id", None),
      Get(sub.neighbor_info, "brws", None),
      Get(sub.neighbor_info, "port", None)>>

\* lines 591-613: the row of the interface just classified, if it is a pf
TopoClassified ==
    /\ pc = "topo_classified"
    /\ LET iface1_info == gi.iface_dict[sub.iface1]
       IN  rows' = IF NotReported(iface1_info["type"]) THEN rows
                   ELSE Append(rows, NewRow(iface1_info))
    /\ sub' = [sub EXCEPT !.iface_i = @ + 1]
    /\ gi' = NoFrame
    /\ ex' = NoFrame
    /\ pc' = "topo_iface"
    /\ UNCHANGED <<main_args, stack, rcl, host, log, proc>>

\* ----------------------------------------------- list_interfaces_subcmd

ListLocals == [server_i |-> 1]

\* line 661: the next server and get_interface_list's command for it (lines
\* 621-624); after the last server, print_table (line 696)
ListServer ==
    /\ pc = "list_server"
    /\ IF sub.server_i > Len(main_args.servers_list)
       THEN /\ proc' = Printed(rows)
            /\ pc' = "done"
            /\ UNCHANGED <<stack, rcl, host, log>>
       ELSE /\ host' = FreshHost
            /\ RclCall(server, <<LinkCommand>>, "links_ret")
            /\ UNCHANGED proc
    /\ UNCHANGED <<main_args, sub, rows, gi, ex>>

\* lines 625, 639 and 664-672: the interface names, and the call of
\* get_ifaces_info with extra_pf_info=True
ListLinks ==
    /\ pc = "links_ret"
    /\ LET interface_list == SafeLoad(rcl.answer_list[1])
           interface_list2 == [i \in DOMAIN interface_list |-> interface_list[i]["ifname"]]
       IN  GiCall(server, interface_list2, TRUE, "list_classified")
    /\ rcl' = NoFrame
    /\ UNCHANGED <<main_args, sub, rows, ex, host, log, proc>>

RECURSIVE ListRows(_, _)
\* lines 677-694: `for iface, iface_dict in iface_info_dict.items()`, in the
\* order the names were inserted, from position i of the interface list on
ListRows(interface_list, i) ==
    IF i > Len(interface_list) THEN <<>>
    ELSE LET iface == interface_list[i]
             iface_dict == gi.iface_dict[iface]
         IN  IF iface_dict["type"] # "pf"
                \/ \E j \in 1..(i - 1) : interface_list[j] = iface
             THEN ListRows(interface_list, i + 1)
             ELSE <<<<server, iface, iface_dict["type"], iface_dict["device_id"],
                      iface_dict["device_name"], iface_dict["vendor_id"],
                      iface_dict["vendor_name"], iface_dict["numa_id"], iface_dict["speed"],
                      iface_dict["operstate"], iface_dict["numvfs"]>>>>
                  \o ListRows(interface_list, i + 1)

\* lines 673-694: the rows of the server's pf interfaces
ListClassified ==
    /\ pc = "list_classified"
    /\ rows' = rows \o ListRows(gi.interface_list, 1)
    /\ sub' = [sub EXCEPT !.server_i = @ + 1]
    /\ gi' = NoFrame
    /\ ex' = NoFrame
    /\ pc' = "list_server"
    /\ host' = FreshHost
    /\ log' = <<>>
    /\ UNCHANGED <<main_args, stack, rcl, proc>>

\* ------------------------------------------------------------- programs

\* parse_args: get-topology SERVER+ [-q] [-e], with or without -c
TopoArgs ==
    [sub_args : {"get-topology"}, servers_list : ServerLists, quick : BOOLEAN,
     extra : BOOLEAN, alt_command : {None, "juju ssh"}]

\* parse_args: list-interfaces SERVER+, with or without -c
ListArgs ==
    [sub_args : {"list-interfaces"}, servers_list : ServerLists, quick : {FALSE},
     extra : {FALSE}, alt_command : {None, "juju ssh"}]

\* the unit harnesses run no program
NoProgram ==
    /\ main_args = [sub_args |-> None]
    /\ pc = "none" /\ stack = <<>> /\ sub = NoFrame /\ rows = <<>>
    /\ gi = NoFrame /\ ex = NoFrame /\ rcl = NoFrame
    /\ host = FreshHost /\ log = <<>> /\ proc = Running

ProgramInit(args, start, locals) ==
    /\ fn = "main" /\ arg = None /\ ret = Pending
    /\ main_args \in args
    /\ pc = start /\ stack = <<>> /\ sub = locals /\ rows = <<>>
    /\ gi = NoFrame /\ ex = NoFrame /\ rcl = NoFrame
    /\ host = FreshHost /\ log = <<>> /\ proc = Running

Init == ProgramInit(TopoArgs, "topo_server", TopoLocals)

ListInit == ProgramInit(ListArgs, "list_server", ListLocals)

Classify ==
    \/ GiStart /\ UNCHANGED pureVars
    \/ GiProbed /\ UNCHANGED pureVars
    \/ ExReturn /\ UNCHANGED pureVars
    \/ RclConnect /\ UNCHANGED pureVars
    \/ RclConnectFail /\ UNCHANGED pureVars
    \/ RclExec /\ UNCHANGED pureVars
    \/ RclExecFail /\ UNCHANGED pureVars
    \/ RclReturn /\ UNCHANGED pureVars

Next ==
    \/ TopoServer /\ UNCHANGED pureVars
    \/ LldpReturn /\ UNCHANGED pureVars
    \/ TopoChassis /\ UNCHANGED pureVars
    \/ TopoIface /\ UNCHANGED pureVars
    \/ TopoClassified /\ UNCHANGED pureVars
    \/ Classify

ListNext ==
    \/ ListServer /\ UNCHANGED pureVars
    \/ ListLinks /\ UNCHANGED pureVars
    \/ ListClassified /\ UNCHANGED pureVars
    \/ Classify

Spec == Init /\ [][Next]_vars

SpecList == ListInit /\ [][ListNext]_vars

\* ---------------------------------------------- unit harness: actions

CapInit == fn = "get_brws_capabilities" /\ arg \in CapInputs /\ ret = Pending /\ NoProgram

CallGetBrws ==
    /\ fn = "get_brws_capabilities" /\ ret = Pending
    /\ ret' = Returned(get_brws_capabilities(arg))
    /\ UNCHANGED <<fn, arg>>
    /\ UNCHANGED progVars

NeighInit == fn = "parse_neighbors" /\ arg \in NeighInputs /\ ret = Pending /\ NoProgram

CallParseNeighbors ==
    /\ fn = "parse_neighbors" /\ ret = Pending
    /\ ret' = parse_neighbors(arg)
    /\ UNCHANGED <<fn, arg>>
    /\ UNCHANGED progVars

\* vendor ids as the sysfs file gives them: the keys of the catalog, one that
\* is no key, and keys in another letter case
VendorIds == DOMAIN vendor_device_mapping \cup {"0x9999", "0X8086", "0x15B3", ""}

\* device ids: every id registered under some vendor, one registered under
\* none, and a registered one in another letter case
DeviceIds ==
    UNION {DOMAIN vendor_device_mapping[v]["devices"] : v \in DOMAIN vendor_device_mapping}
    \cup {"0x9999", "0X10FB"}

VendorInit ==
    /\ fn = "map_vendor_device_id"
    /\ arg \in [vendor_id : VendorIds, device_id : DeviceIds]
    /\ ret = Pending /\ NoProgram

CallMapVendor ==
    /\ fn = "map_vendor_device_id" /\ ret = Pending
    /\ ret' = Returned(map_vendor_device_id(arg.vendor_id, arg.device_id))
    /\ UNCHANGED <<fn, arg>>
    /\ UNCHANGED progVars

SpecCaps == CapInit /\ [][CallGetBrws]_vars

SpecVendor == VendorInit /\ [][CallMapVendor]_vars

SpecNeigh == NeighInit /\ [][CallParseNeighbors]_vars

\* ------------------------------------------------- claims C6, C7

\* the capability field of the harness input as a sequence of entries
ArgCaps ==
    IF "capability" \notin DOMAIN arg THEN <<>>
    ELSE IF arg["capability"].shape = "list" THEN arg["capability"].val
    ELSE <<arg["capability"]>>

\* positions of the entries of type t that carry an 'enabled' key
Carriers(t) ==
    {i \in 1..Len(ArgCaps) :
        /\ ArgCaps[i].shape = "dict"
        /\ "type" \in DOMAIN ArgCaps[i].val /\ ArgCaps[i].val["type"] = t
        /\ "enabled" \in DOMAIN ArgCaps[i].val}

\* the flag the claim gives type t: 'X' without such an entry, else '1' or '0'
\* as the (last) such entry's value is truthy or falsy
ExpectedFlag(t) ==
    IF Carriers(t) = {} THEN "X"
    ELSE LET last == CHOOSE i \in Carriers(t) : \A j \in Carriers(t) : j <= i
         IN  IF ArgCaps[last].val["enabled"] # 0 THEN "1" ELSE "0"

CapOn(t) == JDict([type |-> t, enabled |-> 1])
CapOff(t) == JDict([type |-> t, enabled |-> 0])

\* C6: each of the four flags is '1'/'0' as the entry of its type that carries
\* an 'enabled' key is truthy/falsy, and stays 'X' when no entry of that type
\* carries one (unknown types and entries without 'enabled' change nothing);
\* Bridge on + Router off gives 10XX, all off 0000, all on 1111.
C6_FlagsFollowEntries ==
    (fn = "get_brws_capabilities" /\ ret.status = "returned") =>
        /\ ret.value = ExpectedFlag("Bridge") \o ExpectedFlag("Router")
                       \o ExpectedFlag("Wlan") \o ExpectedFlag("Station")
        /\ (ArgCaps = <<CapOn("Bridge"), CapOff("Router")>> => ret.value = "10XX")
        /\ (ArgCaps = <<CapOff("Bridge"), CapOff("Router"), CapOff("Wlan"), CapOff("Station")>>
                => ret.value = "0000")
        /\ (ArgCaps = <<CapOn("Bridge"), CapOn("Router"), CapOn("Wlan"), CapOn("Station")>>
                => ret.value = "1111")

C6_Witness ==
    /\ fn = "get_brws_capabilities"
    /\ arg = [capability |-> JList(<<CapOn("Bridge"), CapOff("Router"),
                                     JDict([type |-> "Wlan"]),
                                     JDict([type |-> "Other", enabled |-> 1])>>)]
    /\ ret = Returned("10XX")

FlagChars == {"0", "1", "X"}

BrwsCodes ==
    {a \o b \o c \o d : a \in FlagChars, b \in FlagChars, c \in FlagChars, d \in FlagChars}

\* C7: the result is always a string of exactly 4 characters, each 0, 1 or X,
\* in the order Bridge, Router, Wlan, Station, and XXXX for an empty node.
C7_FourCharCode ==
    (fn = "get_brws_capabilities" /\ ret # Pending) =>
        /\ ret.status = "returned"
        /\ Len(ret.value) = 4
        /\ ret.value \in BrwsCodes
        /\ (arg = EmptyDict => ret.value = "XXXX")
        /\ (ArgCaps = <<CapOn("Bridge")>> => ret.value = "1XXX")
        /\ (ArgCaps = <<CapOn("Router")>> => ret.value = "X1XX")
        /\ (ArgCaps = <<CapOn("Wlan")>> => ret.value = "XX1X")
        /\ (ArgCaps = <<CapOn("Station")>> => ret.value = "XXX1")

C7_Witness ==
    fn = "get_brws_capabilities" /\ arg = EmptyDict /\ ret = Returned("XXXX")

\* ------------------------------------------------- claims C3, C4, C5

\* the lldp.interface field of the harness input as a sequence of entries
ArgNeighList ==
    IF "lldp" \notin DOMAIN arg \/ "interface" \notin DOMAIN arg["lldp"] THEN <<>>
    ELSE IF arg["lldp"]["interface"].shape = "list" THEN arg["lldp"]["interface"].val
    ELSE <<arg["lldp"]["interface"].val>>

\* the document has exactly one interface entry, with exactly one key
OneIfaceDoc == Len(ArgNeighList) = 1 /\ Cardinality(DOMAIN ArgNeighList[1]) = 1

OnlyIface == CHOOSE n \in DOMAIN ArgNeighList[1] : TRUE
OnlyInfo == ArgNeighList[1][OnlyIface]

\* the chassis object of an interface value ({} when the field is missing)
ChassisOf(info) == IF "chassis" \in DOMAIN info THEN info["chassis"] ELSE EmptyDict

\* the named-chassis variant: exactly one key, and it is not 'id'
NamedVariant(info) ==
    Cardinality(DOMAIN ChassisOf(info)) = 1 /\ "id" \notin DOMAIN ChassisOf(info)

\* the ID-only variant: the single key is literally 'id'
IdOnlyVariant(info) == DOMAIN ChassisOf(info) = {"id"}

\* port.id.value of an interface value, '' when absent
PortOf(info) ==
    IF "port" \in DOMAIN info /\ "id" \in DOMAIN info["port"]
       /\ "value" \in DOMAIN info["port"]["id"]
    THEN info["port"]["id"]["value"] ELSE ""

\* C3: a one-interface document in the named-chassis variant gives a map with
\* exactly one key, the interface name, whose record has chassis = the chassis
\* key, chassis_id = the nested id.value (UNKNOWN when absent), port =
\* port.id.value ('' when absent) and brws decoded from the nested object.
C3_NamedChassisRecord ==
    (fn = "parse_neighbors" /\ ret # Pending /\ OneIfaceDoc /\ NamedVariant(OnlyInfo)) =>
        LET name == CHOOSE c \in DOMAIN ChassisOf(OnlyInfo) : TRUE
            node == ChassisOf(OnlyInfo)[name]
        IN  /\ ret.status = "returned"
            /\ DOMAIN ret.value = {OnlyIface}
            /\ ret.value[OnlyIface].chassis = name
            /\ ret.value[OnlyIface].chassis_id =
                   (IF "id" \in DOMAIN node /\ "value" \in DOMAIN node["id"]
                    THEN node["id"]["value"] ELSE "UNKNOWN")
            /\ ret.value[OnlyIface].port = PortOf(OnlyInfo)
            /\ ret.value[OnlyIface].brws = get_brws_capabilities(node)
            /\ (OnlyInfo["chassis"] = TestChassis => ret.value[OnlyIface].brws = "10XX")

C3_Witness ==
    /\ fn = "parse_neighbors"
    /\ arg = [lldp |-> [interface |-> JList(<<"eth0" :>
                  [chassis |-> TestChassis, port |-> [id |-> [value |-> Port1]]]>>)]]
    /\ ret = Returned("eth0" :> [chassis |-> "SW-DAT2", chassis_id |-> Mac1,
                                 brws |-> "10XX", port |-> Port1])

\* the id object of an ID-only interface value is of type mac with a value
MacId(info) ==
    /\ "type" \in DOMAIN info["chassis"]["id"] /\ info["chassis"]["id"]["type"] = "mac"
    /\ "value" \in DOMAIN info["chassis"]["id"] /\ info["chassis"]["id"]["value"] # ""

\* C4: in the ID-only variant with id.type == 'mac' and a non-empty value, both
\* the record's chassis display value and its chassis_id are that MAC string.
C4_MacIsNameAndId ==
    (fn = "parse_neighbors" /\ ret # Pending /\ OneIfaceDoc /\ IdOnlyVariant(OnlyInfo)
     /\ MacId(OnlyInfo)) =>
        /\ ret.status = "returned"
        /\ ret.value[OnlyIface].chassis = OnlyInfo["chassis"]["id"]["value"]
        /\ ret.value[OnlyIface].chassis_id = OnlyInfo["chassis"]["id"]["value"]

\* some interface value of the document has a chassis object with zero keys
\* (or no chassis field) or with more than one key
HasBadChassis ==
    \E i \in 1..Len(ArgNeighList) : \E n \in DOMAIN ArgNeighList[i] :
        Cardinality(DOMAIN ChassisOf(ArgNeighList[i][n])) # 1

\* C5: whenever any interface entry's chassis object has zero or more than one
\* top-level key, parse_neighbors ends in SystemExit(1) and returns no map.
C5_BadChassisAborts ==
    (fn = "parse_neighbors" /\ ret # Pending /\ HasBadChassis) => ret = SystemExit(1)

\* a good entry followed by an entry with a two-key chassis: the run exits
C5_Witness ==
    /\ fn = "parse_neighbors"
    /\ Len(ArgNeighList) = 2
    /\ ArgNeighList[1] = ("eth0" :> [chassis |-> TestChassis,
                                      port |-> [id |-> [value |-> Port1]]])
    /\ ArgNeighList[2] = ("eth1" :> [chassis |-> ("A" :> EmptyDict) @@ ("B" :> EmptyDict),
                                      port |-> [id |-> [value |-> Port1]]])
    /\ ret = SystemExit(1)

\* ------------------------------------------------- claims C1, C2

\* the step finishes the interface entry at position sub.iface_i of the
\* current server: line 582 (quick skip), line 595 (not a pf) or line 613
EntryDone ==
    /\ pc \in {"topo_iface", "topo_classified"}
    /\ sub.iface_i <= Len(sub.interface_list)
    /\ proc' = Running
    /\ sub'.iface_i = sub.iface_i + 1

\* the name of the interface entry being processed
EntryName == CHOOSE n \in DOMAIN sub.interface_list[sub.iface_i].val : TRUE

\* the role the two file system facts give an interface
RoleOf(facts) ==
    IF facts.physfn THEN "vf" ELSE IF ~facts.device THEN "vlan" ELSE "pf"

\* the role the probe answered for the entry, once get_ifaces_info returned
ProbedRole == gi.iface_dict[EntryName]["type"]

\* the entry is skipped without a probe: quick mode and no neighbor record
QuickSkipped == main_args.quick /\ EntryName \notin DOMAIN sub.neighbors_dict

\* the step appends exactly one row, complete and for the entry's interface
OneRowAdded ==
    /\ Len(rows') = Len(rows) + 1
    /\ SubSeq(rows', 1, Len(rows)) = rows
    /\ Len(rows'[Len(rows')]) = 11
    /\ rows'[Len(rows')][1] = sub.edge1
    /\ rows'[Len(rows')][4] = EntryName
    /\ rows'[Len(rows')][5] = "pf"

\* C1: an interface entry gets exactly one row when it is eligible (not
\* skipped by quick mode, probed role pf) and no row otherwise; rows change
\* at no other step.
C1_OneRowPerEligibleEntry ==
    [][IF EntryDone
       THEN IF QuickSkipped THEN rows' = rows
            ELSE /\ pc = "topo_classified"
                 /\ IF ProbedRole = "pf" THEN OneRowAdded ELSE rows' = rows
       ELSE rows' = rows]_vars

\* two entries of the first server are done: eth0, a pf, has the only row;
\* eth1, probed as something else, has none
C1_Witness ==
    /\ pc = "topo_iface" /\ sub.server_i = 1 /\ sub.iface_i = 3
    /\ DOMAIN host.fs = {"eth0", "eth1"}
    /\ RoleOf(host.fs["eth0"]) = "pf" /\ RoleOf(host.fs["eth1"]) # "pf"
    /\ Len(rows) = 1 /\ rows[1][4] = "eth0"

\* C2: for a pf interface without an entry in the neighbor map, quick mode
\* gives no row, and without quick mode exactly one row is added whose four
\* remote fields (Edge 2, ChassisID 2, BRWS 2, Iface 2) are None.
C2_NoNeighborRow ==
    [][(EntryDone /\ EntryName \notin DOMAIN sub.neighbors_dict) =>
          IF main_args.quick THEN rows' = rows /\ pc = "topo_iface"
          ELSE (pc = "topo_classified" /\ ProbedRole = "pf") =>
                  /\ OneRowAdded
                  /\ \A k \in 8..11 : rows'[Len(rows')][k] = None]_vars

\* without quick mode, the row of eth1 (a pf with no neighbor record) was added
C2_Witness ==
    /\ pc = "topo_iface" /\ ~main_args.quick
    /\ sub.iface_i > 1 /\ sub.iface_i <= Len(sub.interface_list) + 1
    /\ "eth1" \notin DOMAIN sub.neighbors_dict
    /\ "eth1" \in DOMAIN host.fs /\ RoleOf(host.fs["eth1"]) = "pf"
    /\ rows # <<>>
    /\ rows[Len(rows)][4] = "eth1"
    /\ \A k \in 8..11 : rows[Len(rows)][k] = None

\* ------------------------------------------------------------- claim C8

\* get_ifaces_info has stored the roles of its interfaces
RolesStored == "iface_dict" \in DOMAIN gi /\ DOMAIN gi.iface_dict # {}

\* the facts the server may have for an interface, given what the scan saw
ServerFacts(x) == IF x \in DOMAIN host.fs THEN {host.fs[x]} ELSE FsFacts

\* C8: the role stored for an interface is one of pf, vf and vlan, and it is
\* the answer the server's two file system facts give: vf if physfn exists,
\* else vlan if there is no device directory, else pf.
C8_RoleFollowsFacts ==
    RolesStored =>
        \A x \in DOMAIN gi.iface_dict :
            /\ gi.iface_dict[x]["type"] \in {"pf", "vf", "vlan"}
            /\ \A f \in ServerFacts(x) : gi.iface_dict[x]["type"] = RoleOf(f)

\* ------------------------------------------------------------- claim C9

\* what the host prints for an interface's sysfs file, or its fallback text
FileText(x, file, fallback) ==
    IF Sysfs[x][file] # None THEN Sysfs[x][file] ELSE fallback

\* get_extra_ifaces_info has returned: ex holds its interface list, its
\* command batch and the answers
Enriched == pc \in {"list_classified", "topo_classified"} /\ "answers" \in DOMAIN ex

\* C9: the k-th interface (0-based) of the pf list gets the answers at
\* positions 6k..6k+5, as device id, vendor id, NUMA node, speed, operstate
\* and numvfs, these being the answers to its own six commands in the order
\* get_iface_cmd_list gives them; every value is the interface's own.
C9_SixAnswersPerInterface ==
    Enriched =>
        /\ Len(ex.answers) = 6 * Len(ex.interface_list)
        /\ \A k \in 0..(Len(ex.interface_list) - 1) :
              LET x == ex.interface_list[k + 1]
                  d == gi.iface_dict[x]
              IN  /\ \A j \in 1..6 : ex.command_list[6 * k + j] = get_iface_cmd_list(x)[j]
                  /\ d["device_id"] = ex.answers[6 * k + 1].text
                  /\ d["vendor_id"] = ex.answers[6 * k + 2].text
                  /\ d["numa_id"] = ex.answers[6 * k + 3].text
                  /\ d["speed"] = ex.answers[6 * k + 4].text
                  /\ d["operstate"] = ex.answers[6 * k + 5].text
                  /\ d["numvfs"] = ex.answers[6 * k + 6].text
                  /\ d["device_id"] = FileText(x, "device", None)
                  /\ d["vendor_id"] = FileText(x, "vendor", None)
                  /\ d["numa_id"] = FileText(x, "numa_node", None)
                  /\ d["speed"] = FileText(x, "speed", "UNKNOWN SPEED")
                  /\ d["operstate"] = FileText(x, "operstate", "UNKNOWN OPERSTATE")
                  /\ d["numvfs"] = FileText(x, "sriov_numvfs", "UNKNOWN NUMVFS")

\* three pf interfaces were enriched, eth0 from the last six answers
C9_Witness ==
    /\ pc = "list_classified"
    /\ "answers" \in DOMAIN ex
    /\ ex.interface_list = <<"eth2", "eth1", "eth0">>
    /\ Len(ex.answers) = 18
    /\ gi.iface_dict["eth0"]["device_id"] = "0x10fb"
    /\ gi.iface_dict["eth0"]["numvfs"] = "8"
    /\ gi.iface_dict["eth1"]["speed"] = "UNKNOWN SPEED"

\* ------------------------------------------------------------ claim C10

\* run_command_list has returned to its caller
RclReturned == pc \in {"lldp_ret", "links_ret", "gi_probed", "ex_ret"}

\* C10: when run_command_list returns, with paramiko or with the alternative
\* command, the answers are as many as the commands, the commands ran one by
\* one in list order, and the i-th answer is what the i-th run printed.
C10_AnswersMatchCommands ==
    RclReturned =>
        /\ Len(rcl.answer_list) = Len(rcl.command_list)
        /\ Len(log) = Len(rcl.command_list)
        /\ \A i \in DOMAIN rcl.command_list :
              /\ log[i].command = rcl.command_list[i]
              /\ rcl.answer_list[i].text = log[i].stdout.text

\* the alternative command has run the probes of three interfaces, with
\* different answers
C10_Witness ==
    /\ pc = "gi_probed"
    /\ main_args.alt_command # None
    /\ Len(rcl.command_list) = 3
    /\ Len(rcl.answer_list) = 3
    /\ rcl.answer_list[1].text # rcl.answer_list[3].text

\* ------------------------------------------------------------ claim C11

\* a command of get_ifaces_info's current batch (role probes or enrichment)
\* failed on the server or did not reach it
GiBatchFailed == DOMAIN gi # {} /\ \E i \in DOMAIN log : log[i].failed

\* C11: when the remote execution of a command of the role-probe batch or of
\* the enrichment batch fails, with paramiko or with the alternative command,
\* the process is aborted with a non-zero exit code; get_ifaces_info does not
\* go on and does not return an interface map.
C11_FailureAborts ==
    GiBatchFailed => pc = "exit" /\ proc.status # "running" /\ proc.code # 0

\* ------------------------------------------------------------ claim C12

\* the chassis document of the server being scanned has no chassis key or
\* several
BadChassisDoc ==
    /\ LldpCommands[1] \in DOMAIN host.docs
    /\ LET doc == host.docs[LldpCommands[1]]
       IN  Cardinality(DOMAIN Get(Get(doc, "local-chassis", EmptyDict),
                                  "chassis", EmptyDict)) # 1

\* the interfaces document of the server being scanned is a sequence with an
\* entry that has no key or several
BadInterfaceDoc ==
    /\ LldpCommands[2] \in DOMAIN host.docs
    /\ LET node == Get(Get(host.docs[LldpCommands[2]], "lldp", EmptyDict),
                       "interface", JList(<<>>))
       IN  /\ node.shape = "list"
           /\ \E i \in DOMAIN node.val : Cardinality(DOMAIN node.val[i]) # 1

\* the step ends the scan of the current server
ScanEnds == pc' \in {"exit", "done"} \/ sub'.server_i # sub.server_i

\* C12: a server whose chassis document has zero or several chassis keys,
\* or whose interfaces document has an entry with a number of keys other than
\* one, ends the process with exit code 1 before anything is printed; with such
\* a chassis document no row is built for the server.
C12_BadDocumentAborts ==
    [][/\ BadChassisDoc => rows' = rows
       /\ ((BadChassisDoc \/ BadInterfaceDoc) /\ ScanEnds) =>
             pc' = "exit" /\ proc'.code = 1 /\ ~proc'.printed]_vars

\* the second entry of the interfaces document had two keys: the process
\* ended by sys.exit(1) after the row of the first entry was built
C12_Witness ==
    /\ pc = "exit" /\ proc.status = "SystemExit" /\ proc.code = 1
    /\ ~proc.printed
    /\ BadInterfaceDoc /\ ~BadChassisDoc
    /\ sub.iface_i = 2 /\ Len(rows) = 1

\* ------------------------------------------------------------ claim C13

\* the handler of get_lldp_info or of get_ifaces_info has reported a failed
\* command of its batch and ended the process
BatchFailureReported ==
    /\ pc = "exit" /\ proc.status = "SystemExit"
    /\ stack # <<>> /\ Head(stack) \in {"lldp_ret", "gi_probed", "ex_ret"}
    /\ log # <<>> /\ log[Len(log)].failed

\* C13: when command k of a batch of get_lldp_info or get_ifaces_info fails,
\* the process ends with a non-zero exit code and a report that names the
\* server and command k, the command that failed.
C13_ReportNamesFailedCommand ==
    BatchFailureReported =>
        /\ proc.code # 0
        /\ proc.message = <<rcl.server, log[Len(log)].command>>

\* ------------------------------------------------------------ claim C14

\* the names of the three vendors of the catalog
VendorNames == [v \in {"0x8086", "0x15b3", "0x14e4"} |->
                   IF v = "0x8086" THEN "Intel"
                   ELSE IF v = "0x15b3" THEN "Mellanox" ELSE "Broadcom"]

\* C14: map_vendor_device_id always returns a pair.  For a vendor id that is
\* a key of the catalog the pair is the vendor's name and the device name
\* registered under that vendor, or UNKNOWN DEVICE; for any other vendor id,
\* also a key in another letter case, it is (UNKNOWN VENDOR, UNKNOWN DEVICE)
\* whatever the device id.
C14_VendorDeviceLookup ==
    (fn = "map_vendor_device_id" /\ ret # Pending) =>
        /\ ret.status = "returned"
        /\ IF arg.vendor_id \in DOMAIN VendorNames
           THEN /\ ret.value[1] = VendorNames[arg.vendor_id]
                /\ LET devices == vendor_device_mapping[arg.vendor_id]["devices"]
                   IN  ret.value[2] = IF arg.device_id \in DOMAIN devices
                                      THEN devices[arg.device_id]
                                      ELSE "UNKNOWN DEVICE"
           ELSE ret.value = <<"UNKNOWN VENDOR", "UNKNOWN DEVICE">>
        /\ (arg = [vendor_id |-> "0x8086", device_id |-> "0x10fb"]) =>
              ret.value = <<"Intel", "Niantic IXGBE 82599 SFP">>
        /\ (arg = [vendor_id |-> "0x15b3", device_id |-> "0x1016"]) =>
              ret.value = <<"Mellanox", "MT27710 Family [ConnectX-4 Lx Virtual Function]">>

\* a device id registered under Intel, asked for a vendor id in upper case
C14_Witness ==
    /\ fn = "map_vendor_device_id"
    /\ arg = [vendor_id |-> "0X8086", device_id |-> "0x10fb"]
    /\ ret = Returned(<<"UNKNOWN VENDOR", "UNKNOWN DEVICE">>)

\* ------------------------------------------------------------ claim C15

\* the chassis object of an interface value has no name: it holds 'id' and,
\* next to it, the capability entries
IdWithCapabilities(info) == DOMAIN ChassisOf(info) = {"id", "capability"}

\* C15: for a chassis object without a name, the capability entries that sit
\* in the chassis object next to 'id' are decoded into the record's brws.
C15_IdOnlyCapabilities ==
    (fn = "parse_neighbors" /\ ret # Pending /\ OneIfaceDoc
     /\ IdWithCapabilities(OnlyInfo)) =>
        /\ ret.status = "returned"
        /\ ret.value[OnlyIface].brws = get_brws_capabilities(ChassisOf(OnlyInfo))

\* ------------------------------------------------------------ claim C16

\* C16: in the ID-only variant with an id that is not of type mac, or whose
\* value is absent or empty, the record's chassis and chassis_id are both
\* UNKNOWN.
C16_UnknownChassis ==
    (fn = "parse_neighbors" /\ ret # Pending /\ OneIfaceDoc /\ IdOnlyVariant(OnlyInfo)
     /\ ~MacId(OnlyInfo)) =>
        /\ ret.status = "returned"
        /\ DOMAIN ret.value = {OnlyIface}
        /\ ret.value[OnlyIface].chassis = "UNKNOWN"
        /\ ret.value[OnlyIface].chassis_id = "UNKNOWN"

\* an id of type local with a value
C16_Witness ==
    /\ fn = "parse_neighbors"
    /\ arg = [lldp |-> [interface |-> JList(<<"eth1" :>
                  [chassis |-> [id |-> [type |-> "local", value |-> "sw2"]],
                   port |-> [id |-> [value |-> Port1]]]>>)]]
    /\ ret = Returned("eth1" :> [chassis |-> "UNKNOWN", chassis_id |-> "UNKNOWN",
                                 brws |-> "XXXX", port |-> Port1])

\* ------------------------------------------------------------ claim C17

\* the harness input holds a bare single-key object as lldp.interface
BareObjectDoc ==
    /\ "lldp" \in DOMAIN arg /\ "interface" \in DOMAIN arg["lldp"]
    /\ arg["lldp"]["interface"].shape = "dict"
    /\ Cardinality(DOMAIN arg["lldp"]["interface"].val) = 1

\* C17: the result for a document whose lldp.interface is a bare single-key
\* object o is the result for the document whose lldp.interface is the
\* one-element sequence [o].
C17_BareObjectAsSequence ==
    (fn = "parse_neighbors" /\ ret # Pending /\ BareObjectDoc) =>
        ret = parse_neighbors([lldp |-> [interface |->
                                  JList(<<arg["lldp"]["interface"].val>>)]])

\* a bare object for eth0 gave the record a one-element sequence gives
C17_Witness ==
    /\ fn = "parse_neighbors"
    /\ arg = [lldp |-> [interface |-> JDict("eth0" :>
                  [chassis |-> TestChassis, port |-> [id |-> [value |-> Port1]]])]]
    /\ ret = Returned("eth0" :> [chassis |-> "SW-DAT2", chassis_id |-> Mac1,
                                 brws |-> "10XX", port |-> Port1])

\* ------------------------------------------------------------ claim C18

\* the local interface names of the document
ArgNames == UNION {DOMAIN ArgNeighList[i] : i \in 1..Len(ArgNeighList)}

\* the position of the last entry of the document that has the name n
LastEntry(n) ==
    CHOOSE i \in 1..Len(ArgNeighList) :
        /\ n \in DOMAIN ArgNeighList[i]
        /\ \A j \in (i + 1)..Len(ArgNeighList) : n \notin DOMAIN ArgNeighList[j]

\* C18: a returned map has exactly one record per distinct local interface
\* name of the document, and the record of a name is the one built from the
\* last entry that has the name.
C18_LastEntryWins ==
    (fn = "parse_neighbors" /\ ret # Pending /\ ret.status = "returned") =>
        /\ DOMAIN ret.value = ArgNames
        /\ \A n \in ArgNames :
              ret.value[n] = NeighItem(ArgNeighList[LastEntry(n)][n]).value

\* eth0 occurs twice: the record is that of the second entry
C18_Witness ==
    /\ fn = "parse_neighbors"
    /\ arg = [lldp |-> [interface |-> JList(<<
                  "eth0" :> [chassis |-> TestChassis, port |-> [id |-> [value |-> Port1]]],
                  "eth0" :> [chassis |-> "SW-DAT3" :> [id |-> [type |-> "mac", value |-> Mac2]],
                             port |-> [id |-> [value |-> Port1]]]>>)]]
    /\ ret = Returned("eth0" :> [chassis |-> "SW-DAT3", chassis_id |-> Mac2,
                                 brws |-> "XXXX", port |-> Port1])

\* ------------------------------------------------------------ claim C19

RECURSIVE SplitFrom(_, _, _)
\* the fields of s from position start on, cut at each ',' found from
\* position i on
SplitFrom(s, i, start) ==
    IF i > Len(s) THEN <<SubSeq(s, start, Len(s))>>
    ELSE IF SubSeq(s, i, i) = ","
         THEN <<SubSeq(s, start, i - 1)>> \o SplitFrom(s, i + 1, i + 1)
         ELSE SplitFrom(s, i + 1, start)

\* s.split(',')
SplitOnComma(s) == SplitFrom(s, 1, 1)

\* C19: the 'extra' string of every pf interface classified with enrichment
\* splits on ',' into exactly 7 fields, which are the record's vendor_name,
\* vendor_id, device_name, device_id, speed, operstate and numvfs, in order.
C19_ExtraSplitsIntoSeven ==
    Enriched =>
        \A k \in 1..Len(ex.interface_list) :
            LET d == gi.iface_dict[ex.interface_list[k]]
            IN  /\ Len(SplitOnComma(d["extra"])) = 7
                /\ SplitOnComma(d["extra"]) =
                       <<d["vendor_name"], d["vendor_id"], d["device_name"], d["device_id"],
                         d["speed"], d["operstate"], d["numvfs"]>>

\* eth1, a Mellanox virtual function device without speed and numvfs files
C19_Witness ==
    /\ pc = "list_classified"
    /\ "answers" \in DOMAIN ex
    /\ \E k \in 1..Len(ex.interface_list) : ex.interface_list[k] = "eth1"
    /\ gi.iface_dict["eth1"]["extra"] =
           "Mellanox,0x15b3,MT27710 Family [ConnectX-4 Lx Virtual Function],0x1016,"
           \o "UNKNOWN SPEED,down,UNKNOWN NUMVFS"

\* ------------------------------------------------------------ claim C20

\* the node of the local chassis in the chassis document of the server
LocalChassisNode == host.docs[LldpCommands[1]]["local-chassis"]["chassis"]

\* the neighbor record of the entry's interface, {} when there is none
EntryNeighbor ==
    LET parsed == parse_neighbors(host.docs[LldpCommands[3]])
    IN  IF EntryName \in DOMAIN parsed.value THEN parsed.value[EntryName] ELSE EmptyDict

\* port.id.value of the entry being processed, '' when absent
EntryMac == PortOf(sub.interface_list[sub.iface_i].val[EntryName])

\* C20: every row added has 11 fields, in the order local chassis name, local
\* chassis id, local capability code, local interface name, role, enrichment
\* summary, local MAC/port id, remote chassis name, remote chassis id, remote
\* capability code, remote port id.  The summary is N/A without the extra
\* option and the interface's own summary string with it; the role is pf.
C20_RowFields ==
    [][rows' # rows =>
          /\ Len(rows') = Len(rows) + 1
          /\ LET r == rows'[Len(rows')]
                 name == CHOOSE c \in DOMAIN LocalChassisNode : TRUE
             IN  /\ Len(r) = 11
                 /\ r[1] = name
                 /\ r[2] = Get(Get(LocalChassisNode[name], "id", EmptyDict),
                               "value", "UNKNOWN")
                 /\ r[3] = get_brws_capabilities(LocalChassisNode[name])
                 /\ r[4] = EntryName
                 /\ r[5] = "pf"
                 /\ IF main_args.extra
                    THEN /\ r[6] = gi.iface_dict[EntryName]["extra"]
                         /\ SplitOnComma(r[6])[4] = Sysfs[EntryName]["device"]
                    ELSE r[6] = "N/A"
                 /\ r[7] = EntryMac
                 /\ r[8] = Get(EntryNeighbor, "chassis", None)
                 /\ r[9] = Get(EntryNeighbor, "chassis_id", None)
                 /\ r[10] = Get(EntryNeighbor, "brws", None)
                 /\ r[11] = Get(EntryNeighbor, "port", None)]_vars

\* with the extra option, the row of eth0 and its neighbor SW-DAT2
C20_Witness ==
    /\ main_args.extra
    /\ rows # <<>>
    /\ rows[1] = <<"srv1", LocalMac, "0001", "eth0", "pf",
                   "Intel,0x8086,Niantic IXGBE 82599 SFP,0x10fb,10000,up,8",
                   IfMac["eth0"], "SW-DAT2", Mac1, "10XX", Port1>>

\* ------------------------------------------------------------ claim C21

\* Lines 142-157 and 160-175 append one answer per command or raise, so
\* whenever run_command_list has returned to get_lldp_info, get_ifaces_info,
\* get_extra_ifaces_info or get_interface_list, the answers are as many as
\* the commands: the warnings of lines 177, 281 and 331 are never logged.
AnswerCountMatches ==
    pc \in {"lldp_ret", "links_ret", "gi_probed", "ex_ret"} =>
        Len(rcl.answer_list) = Len(rcl.command_list)

\* ------------------------------------------------------------ claim C22

\* the process has ended on a fatal error: a sys.exit of a handler or of a
\* key-count test, or an exception that nothing catches
FatalExit == pc = "exit" /\ proc.status \notin {"running", "done"}

\* every server of the list has been scanned
AllServersScanned == sub.server_i = Len(main_args.servers_list) + 1

\* C22: a fatal error during the scan of any server ends the process before
\* print_table: nothing is printed then or afterwards, also not the rows
\* already assembled for the servers before it.  The table is printed only
\* once every server of the list has been scanned without a fatal error, and
\* it holds the rows assembled.
C22_AllOrNothingOutput ==
    /\ [](/\ pc = "exit" => FatalExit /\ ~proc.printed /\ proc.table = <<>>
          /\ proc.status \notin {"running", "done"} => pc = "exit"
          /\ proc.printed => /\ pc = "done" /\ proc.status = "done"
                             /\ AllServersScanned
                             /\ proc.table = rows)
    /\ [][/\ pc # "exit"
          /\ pc' = "exit" => ~AllServersScanned /\ rows' = rows]_vars

\* the second server's scan ends on a fatal error after the first server
\* gave a row: the row is not printed
C22_Witness ==
    /\ FatalExit
    /\ sub.server_i = 2
    /\ Len(rows) = 1
    /\ ~proc.printed

\* ------------------------------------------------------------ claim C23

\* the three commands of the LLDP batch, in the order they are sent
LldpBatch ==
    <<"lldpcli -f json show chassis details",
      "lldpcli -f json show interfaces details",
      "lldpcli -f json show neighbors details">>

\* the last step sent a command to the server
CommandSent == Len(log') = Len(log) + 1

\* the command that step sent
SentCommand == log'[Len(log')].command

\* the command is the role probe or an enrichment command of interface x
CommandOf(command, x) ==
    \/ \E c \in ProbeCommands : c.text = command /\ c.iface = x
    \/ \E c \in SysfsCommands : c.text = command /\ c.iface = x

\* the neighbors document the server gave has a record for the entry's
\* interface
HasNeighborRecord ==
    EntryName \in DOMAIN parse_neighbors(host.docs[LldpBatch[3]]).value

\* C23: the scan of a server starts with the LLDP batch, the commands chassis,
\* interfaces, neighbors in that order, sent before any role probe of that
\* scan.  Every command sent afterwards is a role probe or an enrichment
\* command of the interface entry being processed, and in quick mode that
\* interface has a neighbor record.  An entry is either skipped (quick mode,
\* no neighbor record) with no session at all, or gets one session of
\* get_ifaces_info whose probe batch is the probe of exactly its own name,
\* after which the loop moves on to the next entry.
C23_BatchOrder ==
    [][/\ (pc = "topo_server" /\ pc' # "done") =>
              /\ rcl'.command_list = LldpBatch
              /\ host' = FreshHost
       /\ CommandSent =>
              IF \E k \in 1..3 : SentCommand = LldpBatch[k]
              THEN /\ SentCommand = LldpBatch[Len(log')]
                   /\ gi = NoFrame
                   /\ host.fs = EmptyDict /\ host.localfs = EmptyDict
              ELSE /\ \A k \in 1..3 : LldpBatch[k] \in DOMAIN host.docs
                   /\ gi # NoFrame
                   /\ CommandOf(SentCommand, EntryName)
                   /\ main_args.quick => HasNeighborRecord
       /\ pc' = "gi_start" =>
              /\ pc = "topo_iface" /\ gi = NoFrame
              /\ sub'.iface_i = sub.iface_i
              /\ ~(main_args.quick /\ ~HasNeighborRecord)
       /\ pc = "gi_start" =>
              /\ Len(rcl'.command_list) = 1
              /\ CommandOf(rcl'.command_list[1], EntryName)
              /\ \E c \in ProbeCommands : c.text = rcl'.command_list[1]
       /\ EntryDone =>
              IF pc = "topo_iface"
              THEN main_args.quick /\ ~HasNeighborRecord /\ gi = NoFrame /\ gi' = NoFrame
              ELSE gi.interface_list = <<EntryName>> /\ gi' = NoFrame]_vars

\* quick mode, a server reporting eth0 (with a neighbor) and eth1 (without):
\* both entries are done and only eth0 was ever probed
C23_Witness ==
    /\ main_args.quick /\ main_args.alt_command = None
    /\ pc = "topo_iface" /\ sub.iface_i = 3
    /\ DOMAIN sub.interface_list[1].val = {"eth0"}
    /\ DOMAIN sub.interface_list[2].val = {"eth1"}
    /\ DOMAIN sub.neighbors_dict = {"eth0"}
    /\ DOMAIN host.fs = {"eth0"}

\* ------------------------------------------------------------ claim C24

\* the interfaces document the server gave
InterfacesDoc == host.docs[LldpBatch[2]]

\* the server reports exactly one interface, as a bare single-key object
BareInterfaceDoc ==
    /\ LldpBatch[2] \in DOMAIN host.docs
    /\ "lldp" \in DOMAIN InterfacesDoc /\ "interface" \in DOMAIN InterfacesDoc["lldp"]
    /\ IsDict(InterfacesDoc["lldp"]["interface"])
    /\ Cardinality(DOMAIN InterfacesDoc["lldp"]["interface"].val) = 1

\* C24: when lldp.interface of the interfaces document is a bare single-key
\* object o, get_topo_subcmd goes through the same entries as for the
\* one-element sequence [o], so that the interface gets the row it would get
\* there: the interface loop visits the one entry o, and the scan does not
\* end on an exception.
C24_BareInterfaceAsSequence ==
    BareInterfaceDoc =>
        /\ pc \in {"topo_iface", "gi_start", "topo_classified"} =>
              sub.interface_list =
                  ForElements(JList(<<InterfacesDoc["lldp"]["interface"].val>>))
        /\ proc.status # "AttributeError"

====
